---- MODULE Spec2Model ----
(***************************************************************************)
(* The task manager of src/src/App.tsx: one React component holding a      *)
(* task list, a filter and the four fields of the input form, with the     *)
(* list mirrored to localStorage['tasks'] by two effects.                  *)
(*                                                                         *)
(* A JavaScript string is a sequence of one-character strings, so that     *)
(* trim(), toString() and JSON are computed and not assumed.  A JSON text  *)
(* is the sequence of its lexemes (Tok).  A render, and each effect, is a  *)
(* step of its own; an event handler runs only when React has no render    *)
(* and no effect left to run, which is how React schedules the discrete    *)
(* events (submit, click, change) this component listens to.               *)
(***************************************************************************)
EXTENDS Integers, Sequences, FiniteSets, TLC

\* ------------------------------------------------------------- bounds

\* The last reading of the clock, in milliseconds (readings are 1..MaxClock;
\* reading 0 lies before the session).
MaxClock == 2

\* Add is not offered once the list holds this many tasks.
MaxTasks == 2

\* ------------------------------------------------------------ strings

Low == <<"l", "o", "w">>
Medium == <<"m", "e", "d", "i", "u", "m">>
High == <<"h", "i", "g", "h">>

\* The values of the <select> of the form.
Priorities == {Medium, High}

\* What the user types as a title and as a description, and the dates picked:
\* the date field is left empty (a task with a due date comes from storage).
Titles == {<<>>, <<" ">>, <<" ", "a", " ">>}
Descriptions == {<<>>, <<" ">>}
DueDates == {<<>>}

FilterTypes == {"all", "active", "completed"}

RECURSIVE TrimStart(_)
TrimStart(s) ==
    IF s # <<>> /\ Head(s) = " " THEN TrimStart(Tail(s)) ELSE s

RECURSIVE TrimEnd(_)
TrimEnd(s) ==
    IF s # <<>> /\ s[Len(s)] = " " THEN TrimEnd(SubSeq(s, 1, Len(s) - 1)) ELSE s

\* No trimming: the test of addTask as !title.
Untrimmed(s) == s

\* String.prototype.trim
Trim(s) == TrimEnd(TrimStart(s))

Digit(d) == <<"0", "1", "2", "3", "4", "5", "6", "7", "8", "9">>[d + 1]

\* Number.prototype.toString, of a natural number
RECURSIVE NumToString(_)
NumToString(n) ==
    IF n < 10 THEN <<Digit(n)>> ELSE Append(NumToString(n \div 10), Digit(n % 10))

\* Date.prototype.toISOString of a time within the first second of the epoch:
\* "1970-01-01T00:00:00." (written "T" here), three digits of milliseconds, "Z".
ToISOString(ms) ==
    <<"T", Digit((ms \div 100) % 10), Digit((ms \div 10) % 10), Digit(ms % 10), "Z">>

\* --------------------------------------------------------------- JSON

Tok(t, v) == [t |-> t, v |-> v]

TaskKeys == <<"id", "title", "description", "priority", "dueDate", "completed", "createdAt">>

\* The lexeme of a string, and of a boolean.
StrTok(s) == Tok("str", s)
BoolTok(b) == Tok(IF b THEN "true" ELSE "false", <<>>)

\* One task as JSON.stringify writes it: the keys in the order the object
\* literal of addTask creates them (a spread copy keeps that order).
StringifyTask(task) ==
    <<Tok("{", <<>>),
      Tok("key", <<"id">>), StrTok(task.id), Tok(",", <<>>),
      Tok("key", <<"title">>), StrTok(task.title), Tok(",", <<>>),
      Tok("key", <<"description">>), StrTok(task.description), Tok(",", <<>>),
      Tok("key", <<"priority">>), StrTok(task.priority), Tok(",", <<>>),
      Tok("key", <<"dueDate">>), StrTok(task.dueDate), Tok(",", <<>>),
      Tok("key", <<"completed">>), BoolTok(task.completed), Tok(",", <<>>),
      Tok("key", <<"createdAt">>), StrTok(task.createdAt),
      Tok("}", <<>>)>>

RECURSIVE StringifyItems(_)
StringifyItems(ts) ==
    IF ts = <<>> THEN <<>>
    ELSE IF Len(ts) = 1 THEN StringifyTask(ts[1])
    ELSE StringifyTask(ts[1]) \o <<Tok(",", <<>>)>> \o StringifyItems(Tail(ts))

\* JSON.stringify of an array of tasks
JSONstringify(ts) == <<Tok("[", <<>>)>> \o StringifyItems(ts) \o <<Tok("]", <<>>)>>

ParseFail == [ok |-> FALSE, next |-> 0, val |-> <<>>]

IsScalarTok(tok) == tok.t \in {"str", "true", "false"}

\* The members of an object from lexeme i on, up to its closing brace:
\* val is the sequence of <<key, value lexeme>> pairs.
RECURSIVE ParseMembers(_, _, _)
ParseMembers(tx, i, acc) ==
    IF i + 2 > Len(tx) \/ tx[i].t # "key" \/ ~IsScalarTok(tx[i + 1])
    THEN ParseFail
    ELSE LET acc2 == Append(acc, <<tx[i].v[1], tx[i + 1]>>)
         IN  IF tx[i + 2].t = "}" THEN [ok |-> TRUE, next |-> i + 3, val |-> acc2]
             ELSE IF tx[i + 2].t = "," THEN ParseMembers(tx, i + 3, acc2)
             ELSE ParseFail

ParseObject(tx, i) ==
    IF i + 1 > Len(tx) \/ tx[i].t # "{" THEN ParseFail
    ELSE IF tx[i + 1].t = "}" THEN [ok |-> TRUE, next |-> i + 2, val |-> <<>>]
    ELSE ParseMembers(tx, i + 1, <<>>)

\* The elements of an array from lexeme i on, up to the closing bracket, which
\* must end the text.
RECURSIVE ParseElements(_, _, _)
ParseElements(tx, i, acc) ==
    LET o == ParseObject(tx, i)
    IN  IF ~o.ok \/ o.next > Len(tx) THEN ParseFail
        ELSE LET acc2 == Append(acc, o.val)
             IN  IF tx[o.next].t = "]"
                 THEN IF o.next = Len(tx)
                      THEN [ok |-> TRUE, next |-> o.next + 1, val |-> acc2]
                      ELSE ParseFail
                 ELSE IF tx[o.next].t = "," THEN ParseElements(tx, o.next + 1, acc2)
                 ELSE ParseFail

\* The value of a member's lexeme.
TokValue(tok) ==
    IF tok.t = "true" THEN TRUE ELSE IF tok.t = "false" THEN FALSE ELSE tok.v

\* Whether the parsed members are those of a Task: the seven keys, once each,
\* completed a boolean and the others strings.
IsTaskMembers(ms) ==
    /\ Len(ms) = Len(TaskKeys)
    /\ \A k \in 1..Len(TaskKeys) : \E j \in 1..Len(ms) : ms[j][1] = TaskKeys[k]
    /\ \A j \in 1..Len(ms) :
          IF ms[j][1] = "completed" THEN ms[j][2].t \in {"true", "false"}
          ELSE ms[j][2].t = "str"

Member(ms, key) == TokValue(ms[CHOOSE j \in 1..Len(ms) : ms[j][1] = key][2])

TaskOfMembers(ms) ==
    [id |-> Member(ms, "id"), title |-> Member(ms, "title"),
     description |-> Member(ms, "description"), priority |-> Member(ms, "priority"),
     dueDate |-> Member(ms, "dueDate"), completed |-> Member(ms, "completed"),
     createdAt |-> Member(ms, "createdAt")]

\* JSON.parse of a text of these lexemes.  kind is "throws" (a SyntaxError),
\* "tasks" (an array of Task objects, in val) or "other" (any other value).
JSONparse(tx) ==
    IF tx = <<>> THEN [kind |-> "throws", val |-> <<>>]
    ELSE IF Len(tx) = 1
    THEN IF tx[1].t \in {"null", "true", "false", "str"}
         THEN [kind |-> "other", val |-> <<>>]
         ELSE [kind |-> "throws", val |-> <<>>]
    ELSE IF tx[1].t # "[" THEN [kind |-> "throws", val |-> <<>>]
    ELSE IF Len(tx) = 2
    THEN IF tx[2].t = "]" THEN [kind |-> "tasks", val |-> <<>>]
         ELSE [kind |-> "throws", val |-> <<>>]
    ELSE LET r == ParseElements(tx, 2, <<>>)
         IN  IF ~r.ok THEN [kind |-> "throws", val |-> <<>>]
             ELSE IF \A j \in 1..Len(r.val) : IsTaskMembers(r.val[j])
             THEN [kind |-> "tasks", val |-> [j \in 1..Len(r.val) |-> TaskOfMembers(r.val[j])]]
             ELSE [kind |-> "other", val |-> <<>>]

\* -------------------------------------------------------------- state

VARIABLES
    tasks,        \* the tasks state of useState: the value last given to setTasks
    tasksIsArray, \* FALSE when that value is not an array (tasks is then <<>>)
    rendered,     \* the tasks the last render, its handlers and its effects see
    filter,       \* the filter state
    title,        \* the four fields of the form
    description,
    priority,
    dueDate,
    storage,      \* localStorage['tasks']: [present, text]
    now,          \* the reading of the clock, in milliseconds
    dirty,        \* a state update awaits its render
    tasksSet,     \* setTasks was called since the last render
    loadDue,      \* the load effect of the mount has not run yet
    saveDue,      \* the save effect of the last render has not run yet
    crashed,      \* a render threw: the component is unmounted
    alerted,      \* the last handler showed the alert
    errorLogged,  \* console.error was called
    last,         \* the command on the list that awaits its render (or was
                  \* rejected): its name, its id and the form it read
    boot,         \* what localStorage['tasks'] held when the component mounted,
                  \* kept until the first handler runs: [on, stored]
    writeFailed,  \* localStorage.setItem threw in the save effect
    probe         \* one call of isOverdue: its arguments and its result

vars == <<tasks, tasksIsArray, rendered, filter, title, description, priority, dueDate,
          storage, now, dirty, tasksSet, loadDue, saveDue, crashed, alerted,
          errorLogged, last, boot, writeFailed, probe>>

formVars == <<title, description, priority, dueDate>>

\* A task a former session saved, at reading 0 of the clock.
SavedTask ==
    [id |-> NumToString(0), title |-> <<"b">>, description |-> <<"d">>,
     priority |-> Low, dueDate |-> <<"1">>, completed |-> FALSE,
     createdAt |-> ToISOString(0)]

\* A task of a list that was stored by other means, with a blank title.
UntitledTask == [SavedTask EXCEPT !.title = <<" ">>]

Absent == [present |-> FALSE, text |-> <<>>]
Stored(tx) == [present |-> TRUE, text |-> tx]

\* What localStorage['tasks'] may hold when the component mounts: nothing, the
\* empty string, a saved list, a list with a blank title, the start of a list,
\* null.
StoredAtMount ==
    {Absent,
     Stored(<<>>),
     Stored(JSONstringify(<<>>)),
     Stored(JSONstringify(<<SavedTask>>)),
     Stored(JSONstringify(<<UntitledTask>>)),
     Stored(SubSeq(JSONstringify(<<SavedTask>>), 1, 5)),
     Stored(<<Tok("null", <<>>)>>)}

BlankForm == [title |-> <<>>, description |-> <<>>, priority |-> Medium, dueDate |-> <<>>]

NoCommand == [op |-> "none", id |-> <<>>, form |-> BlankForm]

NoBoot == [on |-> FALSE, stored |-> Absent]

NoProbe == [dueDate |-> <<>>, completed |-> FALSE, done |-> FALSE, result |-> FALSE]

aux == <<writeFailed, probe>>

\* useState's initial values, after the first render and before its effects.
Init ==
    /\ tasks = <<>>
    /\ tasksIsArray = TRUE
    /\ rendered = <<>>
    /\ filter = "all"
    /\ title = <<>>
    /\ description = <<>>
    /\ priority = Medium
    /\ dueDate = <<>>
    /\ storage \in StoredAtMount
    /\ now = 1
    /\ dirty = FALSE
    /\ tasksSet = FALSE
    /\ loadDue = TRUE
    /\ saveDue = TRUE
    /\ crashed = FALSE
    /\ alerted = FALSE
    /\ errorLogged = FALSE
    /\ last = NoCommand
    /\ boot = [on |-> TRUE, stored |-> storage]
    /\ writeFailed = FALSE
    /\ probe = NoProbe

\* ------------------------------------------------------------ derived

SelectCompleted(ts, flag) == SelectSeq(ts, LAMBDA t : t.completed = flag)

\* The two cases of the switch exchanged.
getFilteredTasksSwapped(ts, f) ==
    CASE f = "active" -> SelectCompleted(ts, TRUE)
      [] f = "completed" -> SelectCompleted(ts, FALSE)
      [] OTHER -> ts

\* getFilteredTasks, of a list and a filter
getFilteredTasks(ts, f) ==
    CASE f = "active" -> SelectCompleted(ts, FALSE)
      [] f = "completed" -> SelectCompleted(ts, TRUE)
      [] OTHER -> ts

\* The counts a render of the list ts shows.
CompletedCount(ts) == Len(SelectSeq(ts, LAMBDA t : t.completed))

\* The test of activeCount without its negation.
ActiveCountUnnegated(ts) == Len(SelectSeq(ts, LAMBDA t : t.completed))

ActiveCount(ts) == Len(SelectSeq(ts, LAMBDA t : ~t.completed))
TotalCount(ts) == Len(ts)

\* What the last render computed.
filteredTasks == getFilteredTasks(rendered, filter)
completedCount == CompletedCount(rendered)
activeCount == ActiveCount(rendered)
totalCount == TotalCount(rendered)

\* --------------------------------------------------------- scheduling

\* React runs a handler when the component is mounted and no render or effect
\* is left to run.
Idle == ~crashed /\ ~dirty /\ ~loadDue /\ ~saveDue

\* The clock advances.
Tick ==
    /\ now < MaxClock
    /\ now' = now + 1
    /\ UNCHANGED <<tasks, tasksIsArray, rendered, filter, formVars, storage, dirty,
                   tasksSet, loadDue, saveDue, crashed, alerted, errorLogged, last>>
    /\ UNCHANGED <<boot, aux>>

\* The load effect reading a key nothing is stored under.
LoadEffectOfNoKey ==
    /\ loadDue /\ ~crashed
    /\ loadDue' = FALSE
    /\ UNCHANGED <<tasks, tasksIsArray, dirty, tasksSet, errorLogged>>
    /\ UNCHANGED <<rendered, filter, formVars, storage, now, saveDue, crashed,
                   alerted, last>>
    /\ UNCHANGED <<boot, aux>>

\* The load effect, once, after the first render.
LoadEffect ==
    /\ loadDue /\ ~crashed
    /\ loadDue' = FALSE
    /\ LET savedTasks == storage
           parsed == JSONparse(savedTasks.text)
       IN  IF savedTasks.present /\ savedTasks.text # <<>>
           THEN IF parsed.kind = "throws"
                THEN /\ errorLogged' = TRUE
                     /\ UNCHANGED <<tasks, tasksIsArray, dirty, tasksSet>>
                ELSE /\ tasks' = parsed.val
                     /\ tasksIsArray' = (parsed.kind = "tasks")
                     /\ dirty' = TRUE
                     /\ tasksSet' = TRUE
                     /\ UNCHANGED errorLogged
           ELSE UNCHANGED <<tasks, tasksIsArray, dirty, tasksSet, errorLogged>>
    /\ UNCHANGED <<rendered, filter, formVars, storage, now, saveDue, crashed,
                   alerted, last>>
    /\ UNCHANGED <<boot, aux>>

\* The save effect writing what is shown: the filtered list.
SaveEffectOfVisible ==
    /\ saveDue /\ ~loadDue /\ ~crashed
    /\ saveDue' = FALSE
    /\ storage' = Stored(JSONstringify(getFilteredTasks(rendered, filter)))
    /\ UNCHANGED <<tasks, tasksIsArray, rendered, filter, formVars, now, dirty,
                   tasksSet, loadDue, crashed, alerted, errorLogged, last>>
    /\ UNCHANGED <<boot, aux>>

\* The save effect, after the first render and after each render whose tasks
\* are a new array.
SaveEffect ==
    /\ saveDue /\ ~loadDue /\ ~crashed
    /\ saveDue' = FALSE
    /\ storage' = Stored(JSONstringify(rendered))
    /\ UNCHANGED <<tasks, tasksIsArray, rendered, filter, formVars, now, dirty,
                   tasksSet, loadDue, crashed, alerted, errorLogged, last>>
    /\ UNCHANGED <<boot, aux>>

\* A render, after the effects of the render before it: tasks.filter throws on
\* a value that is no array.
Render ==
    /\ dirty /\ ~crashed /\ ~loadDue /\ ~saveDue
    /\ dirty' = FALSE
    /\ tasksSet' = FALSE
    /\ last' = NoCommand
    /\ IF tasksIsArray
       THEN /\ rendered' = tasks
            /\ saveDue' = tasksSet
            /\ UNCHANGED crashed
       ELSE /\ crashed' = TRUE
            /\ UNCHANGED <<rendered, saveDue>>
    /\ UNCHANGED <<tasks, tasksIsArray, filter, formVars, storage, now, loadDue,
                   alerted, errorLogged>>
    /\ UNCHANGED <<boot, aux>>

\* ----------------------------------------------------------- commands

\* The object literal of addTask.
NewTask(ms, form) ==
    [id |-> NumToString(ms), title |-> Trim(form.title),
     description |-> Trim(form.description), priority |-> form.priority,
     dueDate |-> form.dueDate, completed |-> FALSE, createdAt |-> ToISOString(ms)]

\* The new task put last: [...tasks, newTask].
Appended(task, ts) == Append(ts, task)

\* [newTask, ...tasks]
Prepended(task, ts) == <<task>> \o ts

Form == [title |-> title, description |-> description, priority |-> priority,
         dueDate |-> dueDate]

\* onSubmit of the form.  Date.now() and new Date() are taken as one reading
\* of the clock.
addTask ==
    /\ Idle
    /\ Len(rendered) < MaxTasks
    /\ IF Trim(title) = <<>>
       THEN /\ alerted' = TRUE
            /\ last' = [op |-> "reject", id |-> <<>>, form |-> Form]
            /\ UNCHANGED <<tasks, dirty, tasksSet, formVars>>
       ELSE /\ alerted' = FALSE
            /\ tasks' = Prepended(NewTask(now, Form), rendered)
            /\ last' = [op |-> "add", id |-> NumToString(now), form |-> Form]
            /\ title' = <<>>
            /\ description' = <<>>
            /\ priority' = Medium
            /\ dueDate' = <<>>
            /\ dirty' = TRUE
            /\ tasksSet' = TRUE
    /\ UNCHANGED <<tasksIsArray, rendered, filter, storage, now, loadDue, saveDue,
                   crashed, errorLogged>>
    /\ boot' = NoBoot
    /\ UNCHANGED aux

\* The flag set instead of flipped: completed: true.
CompletedList(ts, id) ==
    [i \in 1..Len(ts) |->
        IF ts[i].id = id THEN [ts[i] EXCEPT !.completed = TRUE] ELSE ts[i]]

\* The list sorted on completion: the toggled tasks moved to the end.
ToggledToEnd(ts, id) ==
    SelectSeq(ts, LAMBDA t : t.id # id)
        \o [i \in 1..Len(SelectSeq(ts, LAMBDA t : t.id = id)) |->
               [SelectSeq(ts, LAMBDA t : t.id = id)[i] EXCEPT
                   !.completed = ~SelectSeq(ts, LAMBDA t : t.id = id)[i].completed]]

\* tasks.map of toggleTask
ToggledList(ts, id) ==
    [i \in 1..Len(ts) |->
        IF ts[i].id = id THEN [ts[i] EXCEPT !.completed = ~ts[i].completed] ELSE ts[i]]

\* The filter turned round: the tasks of that id are the ones kept.
MatchingList(ts, id) == SelectSeq(ts, LAMBDA t : t.id = id)

\* tasks.filter of deleteTask
RemainingList(ts, id) == SelectSeq(ts, LAMBDA t : t.id # id)

\* The ids a checkbox or a delete button may carry: those of the clock's readings.
Ids == {NumToString(n) : n \in 0..MaxClock}

\* onChange of a task's checkbox.
toggleTask(id) ==
    /\ Idle
    /\ tasks' = ToggledList(rendered, id)
    /\ dirty' = TRUE
    /\ tasksSet' = TRUE
    /\ alerted' = FALSE
    /\ last' = [op |-> "toggle", id |-> id, form |-> BlankForm]
    /\ UNCHANGED <<tasksIsArray, rendered, filter, formVars, storage, now, loadDue,
                   saveDue, crashed, errorLogged>>
    /\ boot' = NoBoot
    /\ UNCHANGED aux

\* onClick of a task's delete button.
deleteTask(id) ==
    /\ Idle
    /\ tasks' = RemainingList(rendered, id)
    /\ dirty' = TRUE
    /\ tasksSet' = TRUE
    /\ alerted' = FALSE
    /\ last' = [op |-> "delete", id |-> id, form |-> BlankForm]
    /\ UNCHANGED <<tasksIsArray, rendered, filter, formVars, storage, now, loadDue,
                   saveDue, crashed, errorLogged>>
    /\ boot' = NoBoot
    /\ UNCHANGED aux

\* A filter button that keeps only the tasks it shows.
SetFilterStoring(value) ==
    /\ Idle
    /\ totalCount > 0
    /\ filter' = value
    /\ tasks' = getFilteredTasks(rendered, value)
    /\ dirty' = TRUE
    /\ tasksSet' = TRUE
    /\ alerted' = FALSE
    /\ last' = NoCommand
    /\ UNCHANGED <<tasksIsArray, rendered, formVars, storage, now,
                   loadDue, saveDue, crashed, errorLogged>>
    /\ boot' = NoBoot
    /\ UNCHANGED aux

\* onClick of a filter button; React skips the render when the value is the same.
\* The buttons are rendered only when there are tasks.
SetFilter(value) ==
    /\ Idle
    /\ totalCount > 0
    /\ filter' = value
    /\ dirty' = (value # filter)
    /\ alerted' = FALSE
    /\ last' = NoCommand
    /\ UNCHANGED <<tasks, tasksIsArray, rendered, formVars, storage, now, tasksSet,
                   loadDue, saveDue, crashed, errorLogged>>
    /\ boot' = NoBoot
    /\ UNCHANGED aux

\* onChange of the fields of the form.
SetTitle(value) ==
    /\ Idle
    /\ title' = value
    /\ dirty' = (value # title)
    /\ alerted' = FALSE
    /\ last' = NoCommand
    /\ UNCHANGED <<tasks, tasksIsArray, rendered, filter, description, priority, dueDate,
                   storage, now, tasksSet, loadDue, saveDue, crashed,
                   errorLogged>>
    /\ boot' = NoBoot
    /\ UNCHANGED aux

SetDescription(value) ==
    /\ Idle
    /\ description' = value
    /\ dirty' = (value # description)
    /\ alerted' = FALSE
    /\ last' = NoCommand
    /\ UNCHANGED <<tasks, tasksIsArray, rendered, filter, title, priority, dueDate,
                   storage, now, tasksSet, loadDue, saveDue, crashed,
                   errorLogged>>
    /\ boot' = NoBoot
    /\ UNCHANGED aux

SetPriority(value) ==
    /\ Idle
    /\ priority' = value
    /\ dirty' = (value # priority)
    /\ alerted' = FALSE
    /\ last' = NoCommand
    /\ UNCHANGED <<tasks, tasksIsArray, rendered, filter, title, description, dueDate,
                   storage, now, tasksSet, loadDue, saveDue, crashed,
                   errorLogged>>
    /\ boot' = NoBoot
    /\ UNCHANGED aux

SetDueDate(value) ==
    /\ Idle
    /\ dueDate' = value
    /\ dirty' = (value # dueDate)
    /\ alerted' = FALSE
    /\ last' = NoCommand
    /\ UNCHANGED <<tasks, tasksIsArray, rendered, filter, title, description, priority,
                   storage, now, tasksSet, loadDue, saveDue, crashed,
                   errorLogged>>
    /\ boot' = NoBoot
    /\ UNCHANGED aux

\* onClick of the Clear button.
resetForm ==
    /\ Idle
    /\ title' = <<>>
    /\ description' = <<>>
    /\ priority' = Medium
    /\ dueDate' = <<>>
    /\ dirty' = (Form # BlankForm)
    /\ alerted' = FALSE
    /\ last' = NoCommand
    /\ UNCHANGED <<tasks, tasksIsArray, rendered, filter, storage, now, tasksSet,
                   loadDue, saveDue, crashed, errorLogged>>
    /\ boot' = NoBoot
    /\ UNCHANGED aux

\* The page is loaded again: the component mounts afresh over what
\* localStorage holds.
Reload ==
    /\ Idle \/ crashed
    /\ tasks' = <<>>
    /\ tasksIsArray' = TRUE
    /\ rendered' = <<>>
    /\ filter' = "all"
    /\ title' = <<>>
    /\ description' = <<>>
    /\ priority' = Medium
    /\ dueDate' = <<>>
    /\ dirty' = FALSE
    /\ tasksSet' = FALSE
    /\ loadDue' = TRUE
    /\ saveDue' = TRUE
    /\ crashed' = FALSE
    /\ alerted' = FALSE
    /\ errorLogged' = FALSE
    /\ last' = NoCommand
    /\ boot' = [on |-> TRUE, stored |-> storage]
    /\ writeFailed' = FALSE
    /\ UNCHANGED <<storage, now, probe>>

Next ==
    \/ Tick
    \/ LoadEffect
    \/ SaveEffect
    \/ Render
    \/ addTask
    \/ \E id \in Ids : toggleTask(id)
    \/ \E id \in Ids : deleteTask(id)
    \/ \E value \in FilterTypes : SetFilter(value)
    \/ \E value \in Titles : SetTitle(value)
    \/ \E value \in Descriptions : SetDescription(value)
    \/ \E value \in Priorities : SetPriority(value)
    \/ \E value \in DueDates : SetDueDate(value)
    \/ resetForm
    \/ Reload

Spec == Init /\ [][Next]_vars

\* ------------------------------------- two commands before one render

\* A command on the list awaits its render: React has batched its setTasks and
\* the handlers on the page are still those of the last render.
Batched ==
    /\ ~crashed /\ ~loadDue /\ ~saveDue
    /\ dirty
    /\ last.op \in {"add", "toggle", "delete"}

\* toggleTask called before that render: its tasks is the list of the last
\* render, and its setTasks replaces the one that is pending.
toggleTaskBatched(id) ==
    /\ Batched
    /\ tasks' = ToggledList(rendered, id)
    /\ dirty' = TRUE
    /\ tasksSet' = TRUE
    /\ alerted' = FALSE
    /\ last' = [op |-> "toggle", id |-> id, form |-> BlankForm]
    /\ UNCHANGED <<tasksIsArray, rendered, filter, formVars, storage, now, loadDue,
                   saveDue, crashed, errorLogged, boot, aux>>

\* deleteTask called before that render.
deleteTaskBatched(id) ==
    /\ Batched
    /\ tasks' = RemainingList(rendered, id)
    /\ dirty' = TRUE
    /\ tasksSet' = TRUE
    /\ alerted' = FALSE
    /\ last' = [op |-> "delete", id |-> id, form |-> BlankForm]
    /\ UNCHANGED <<tasksIsArray, rendered, filter, formVars, storage, now, loadDue,
                   saveDue, crashed, errorLogged, boot, aux>>

NextBatched ==
    \/ Next
    \/ \E id \in Ids : toggleTaskBatched(id)
    \/ \E id \in Ids : deleteTaskBatched(id)

\* The component when two events are handled in one batch, as by two clicks
\* dispatched from one script task.
SpecBatched == Init /\ [][NextBatched]_vars

\* ------------------------------------------------------------ overdue

MsPerDay == 24 * 60 * 60 * 1000

IsDigit(c) == \E d \in 0..9 : Digit(d) = c

\* new Date(s).getTime() of the value of a date field, a day of January 1970:
\* "1970-01-dd", written as its two digits dd here. The time is midnight UTC
\* of that day; any other string gives an invalid date (NaN).
DateParse(s) ==
    IF /\ Len(s) = 2 /\ IsDigit(s[1]) /\ IsDigit(s[2])
       /\ (CHOOSE d \in 0..9 : Digit(d) = s[1]) * 10
              + (CHOOSE d \in 0..9 : Digit(d) = s[2]) \in 1..31
    THEN [valid |-> TRUE,
          ms |-> ((CHOOSE d \in 0..9 : Digit(d) = s[1]) * 10
                     + (CHOOSE d \in 0..9 : Digit(d) = s[2]) - 1) * MsPerDay]
    ELSE [valid |-> FALSE, ms |-> 0]

\* The comparison with <= for <.
isOverdueOrDue(due, completed) ==
    IF due = <<>> \/ completed
    THEN FALSE
    ELSE DateParse(due).valid /\ DateParse(due).ms <= now

\* isOverdue; new Date() is the reading of the clock, and a comparison with an
\* invalid date is false.
isOverdue(due, completed) ==
    IF due = <<>> \/ completed
    THEN FALSE
    ELSE DateParse(due).valid /\ DateParse(due).ms < now

\* The due dates isOverdue is called with: none, three days, two strings that
\* are no date.
DueStrings ==
    {<<>>, <<"0", "1">>, <<"0", "2">>, <<"0", "3">>, <<"0", "0">>, <<"1", "x">>}

\* The moments it is called at: around the midnights of the first three days.
Moments ==
    {0, 1, MsPerDay - 1, MsPerDay, MsPerDay + 1,
     2 * MsPerDay - 1, 2 * MsPerDay, 2 * MsPerDay + 1}

\* A render is about to call isOverdue for a task.
InitOverdue ==
    /\ tasks = <<>>
    /\ tasksIsArray = TRUE
    /\ rendered = <<>>
    /\ filter = "all"
    /\ title = <<>>
    /\ description = <<>>
    /\ priority = Medium
    /\ dueDate = <<>>
    /\ storage \in StoredAtMount
    /\ now \in Moments
    /\ dirty = FALSE
    /\ tasksSet = FALSE
    /\ loadDue = TRUE
    /\ saveDue = TRUE
    /\ crashed = FALSE
    /\ alerted = FALSE
    /\ errorLogged = FALSE
    /\ last = NoCommand
    /\ boot = [on |-> TRUE, stored |-> storage]
    /\ writeFailed = FALSE
    /\ probe \in [dueDate : DueStrings, completed : BOOLEAN, done : {FALSE}, result : {FALSE}]

\* The call.
EvalOverdue ==
    /\ ~probe.done
    /\ probe' = [probe EXCEPT !.done = TRUE,
                              !.result = isOverdue(probe.dueDate, probe.completed)]
    /\ UNCHANGED <<tasks, tasksIsArray, rendered, filter, formVars, storage, now,
                   dirty, tasksSet, loadDue, saveDue, crashed, alerted, errorLogged,
                   last, boot, writeFailed>>

NextOverdue == EvalOverdue

\* isOverdue over the dates and the moments above.
SpecOverdue == InitOverdue /\ [][NextOverdue]_vars

\* ------------------------------------------------- a slot that is full

\* The save effect when localStorage.setItem throws (the quota is exceeded,
\* storage is denied): the effect has no try, so the error leaves it and React
\* unmounts the component.
SaveEffectThrows ==
    /\ saveDue /\ ~loadDue /\ ~crashed
    /\ saveDue' = FALSE
    /\ writeFailed' = TRUE
    /\ crashed' = TRUE
    /\ UNCHANGED <<tasks, tasksIsArray, rendered, filter, formVars, storage, now,
                   dirty, tasksSet, loadDue, alerted, errorLogged, last, boot, probe>>

NextQuota == Next \/ SaveEffectThrows

\* The component over a slot whose writes may fail.
SpecQuota == Init /\ [][NextQuota]_vars

\* ------------------------------------------------------------- claims

IsBlank(s) == \A k \in 1..Len(s) : s[k] = " "

\* t is raw without the spaces at its two ends.
IsTrimOf(t, raw) ==
    /\ t = <<>> \/ (t[1] # " " /\ t[Len(t)] # " ")
    /\ \E i \in 0..Len(raw) : \E j \in i..Len(raw) :
          /\ t = SubSeq(raw, i + 1, j)
          /\ \A k \in 1..i : raw[k] = " "
          /\ \A k \in (j + 1)..Len(raw) : raw[k] = " "

IdsOf(ts) == {ts[i].id : i \in 1..Len(ts)}

\* C1: an add with a title that is not blank is never rejected, and it makes
\* the list one longer: the next render counts one task more and shows, under
\* filter 'all', the new task (not completed, title and description trimmed,
\* priority and due date as given) first and the tasks of before after it,
\* unchanged and in their order.
AddPrependsOne ==
    /\ last.op = "reject" => IsBlank(last.form.title)
    /\ (dirty /\ last.op = "add") =>
          /\ ~IsBlank(last.form.title)
          /\ TotalCount(tasks) = totalCount + 1
          /\ LET visible == getFilteredTasks(tasks, "all")
                 new == visible[1]
             IN  /\ Len(visible) = Len(rendered) + 1
                 /\ ~new.completed
                 /\ IsTrimOf(new.title, last.form.title)
                 /\ IsTrimOf(new.description, last.form.description)
                 /\ new.priority = last.form.priority
                 /\ new.dueDate = last.form.dueDate
                 /\ \A i \in 1..Len(rendered) : visible[i + 1] = rendered[i]

\* An add of a title and a description with spaces at both ends, to a list
\* that holds a task.
AddPrependsOneWitness ==
    /\ dirty /\ last.op = "add"
    /\ last.form.title = <<" ", "a", " ">>
    /\ last.form.description = <<" ">>
    /\ Len(rendered) = 1
    /\ Len(tasks) = 2

\* C2: an add with an empty or blank title shows the alert and changes neither
\* the list nor the storage slot, and leaves no render and no save to run.
BlankAddRejected ==
    [][(addTask /\ IsBlank(title)) =>
          /\ alerted'
          /\ last'.op = "reject"
          /\ tasks' = tasks /\ rendered' = rendered /\ tasksIsArray' = tasksIsArray
          /\ storage' = storage
          /\ ~dirty' /\ ~saveDue' /\ ~tasksSet']_vars

\* A blank title was rejected while the list and the slot hold a task.
BlankAddRejectedWitness ==
    /\ alerted /\ last.op = "reject"
    /\ last.form.title = <<" ">>
    /\ Len(tasks) = 1
    /\ storage = Stored(JSONstringify(tasks))

\* ts without its i-th task.
WithoutAt(ts, i) == SubSeq(ts, 1, i - 1) \o SubSeq(ts, i + 1, Len(ts))

\* C3: no two tasks of the list have the same id (and so no id is given to a
\* second task while the first is in the list).
IdsUnique ==
    \A i, j \in 1..Len(tasks) : i # j => tasks[i].id # tasks[j].id

\* C4: a delete of an id of the list removes one task, the one of that id, and
\* leaves the others as they were and in their order; the list is one shorter,
\* and a second delete of that id changes nothing.
DeleteRemovesOne ==
    (dirty /\ last.op = "delete" /\ last.id \in IdsOf(rendered)) =>
        /\ TotalCount(tasks) = totalCount - 1
        /\ \E i \in 1..Len(rendered) :
              rendered[i].id = last.id /\ tasks = WithoutAt(rendered, i)
        /\ RemainingList(tasks, last.id) = tasks

\* C5: a toggle of an id of the list flips completed in one task, the one of
\* that id, and changes no other field, no other task, no position and not the
\* length.
ToggleFlipsOne ==
    (dirty /\ last.op = "toggle" /\ last.id \in IdsOf(rendered)) =>
        /\ Len(tasks) = Len(rendered)
        /\ \E i \in 1..Len(rendered) :
              /\ rendered[i].id = last.id
              /\ tasks = [rendered EXCEPT ![i].completed = ~rendered[i].completed]

\* C6: a toggle or a delete of an id that no task has leaves the list as it
\* was, content and order, shows no alert and crashes nothing.
UnknownIdChangesNothing ==
    (dirty /\ last.op \in {"toggle", "delete"} /\ last.id \notin IdsOf(rendered)) =>
        /\ tasks = rendered
        /\ tasksIsArray
        /\ ~alerted
        /\ ~crashed

\* A delete of an id that neither of the two tasks of the list has.
UnknownIdChangesNothingWitness ==
    /\ dirty /\ last.op = "delete"
    /\ last.id \notin IdsOf(rendered)
    /\ Len(rendered) = 2
    /\ tasks = rendered

\* C7: a toggle of the list a toggle of the same id has made gives back the
\* list the first toggle started from.
ToggleTwiceRestores ==
    (dirty /\ last.op = "toggle") => ToggledList(tasks, last.id) = rendered

\* A toggle that completed one of two tasks.
ToggleTwiceRestoresWitness ==
    /\ dirty /\ last.op = "toggle"
    /\ Len(rendered) = 2
    /\ \E i \in 1..2 :
          rendered[i].id = last.id /\ ~rendered[i].completed /\ tasks[i].completed
    /\ \E i \in 1..2 : rendered[i].id # last.id

\* The positions of ts whose task has completed = flag, and the k-th of them.
PositionsOf(ts, flag) == {i \in 1..Len(ts) : ts[i].completed = flag}
NthOf(S, k) == CHOOSE i \in S : Cardinality({j \in S : j < i}) = k - 1

\* The tasks of ts with completed = flag, in the order of ts.
ProjectionOf(ts, flag) ==
    [k \in 1..Cardinality(PositionsOf(ts, flag)) |-> ts[NthOf(PositionsOf(ts, flag), k)]]

\* C8: the counts of a render add up: active + completed = total, under every
\* filter, and the same holds of the list the next render will count.
CountsAddUp ==
    /\ activeCount + completedCount = totalCount
    /\ ActiveCount(tasks) + CompletedCount(tasks) = TotalCount(tasks)
    /\ totalCount = Len(rendered)
    /\ completedCount = Cardinality(PositionsOf(rendered, TRUE))
    /\ activeCount = Cardinality(PositionsOf(rendered, FALSE))

\* A render of one active and one completed task, under a filter that hides one.
CountsAddUpWitness ==
    /\ ~dirty
    /\ filter = "completed"
    /\ totalCount = 2 /\ activeCount = 1 /\ completedCount = 1

\* C9: the visible list is the list itself under 'all', its tasks that are not
\* completed under 'active' and its completed tasks under 'completed', in the
\* order of the list.
VisibleIsProjection ==
    /\ filter = "all" => filteredTasks = rendered
    /\ filter = "active" => filteredTasks = ProjectionOf(rendered, FALSE)
    /\ filter = "completed" => filteredTasks = ProjectionOf(rendered, TRUE)
    /\ \A f \in FilterTypes :
          getFilteredTasks(tasks, f) =
              IF f = "all" THEN tasks ELSE ProjectionOf(tasks, f = "completed")

\* Under 'active', a completed task before one that is not: only the second
\* is visible.
VisibleIsProjectionWitness ==
    /\ ~dirty
    /\ filter = "active"
    /\ Len(rendered) = 2
    /\ rendered[1].completed /\ ~rendered[2].completed
    /\ filteredTasks = <<rendered[2]>>

\* C10: when nothing is left to run (no render, no effect), the storage slot
\* holds the serialization of the whole list, and reading it back gives the
\* list: every task of the list and no other.
StorageHoldsList ==
    Idle =>
        /\ tasks = rendered
        /\ storage = Stored(JSONstringify(tasks))
        /\ JSONparse(storage.text) = [kind |-> "tasks", val |-> tasks]

\* After adds at two readings of the clock, a toggle of the older task and its
\* save, under a filter that hides that task.
StorageHoldsListWitness ==
    /\ Idle
    /\ filter = "active"
    /\ Len(tasks) = 2
    /\ tasks[1].id = NumToString(2) /\ ~tasks[1].completed
    /\ tasks[2].id = NumToString(1) /\ tasks[2].completed
    /\ storage = Stored(JSONstringify(tasks))

\* ------------------------------------------------------------ startup

\* The stored text is no serialized list of tasks: it does not parse, or it
\* parses to something else.
Corrupted(st) == st.present /\ JSONparse(st.text).kind # "tasks"

\* The stored text is a serialized list of tasks.
WellFormed(st) == st.present /\ JSONparse(st.text).kind = "tasks"

\* C11: a mount over a stored text that is no serialized list of tasks leaves
\* the list empty once the load effect has run, and nothing throws, in the
\* load effect or in the renders after it.
CorruptStartsEmpty ==
    (boot.on /\ ~loadDue /\ Corrupted(boot.stored))
        => (tasksIsArray /\ tasks = <<>> /\ ~crashed)

\* The list a mount found stored.
StoredList == JSONparse(boot.stored.text).val

\* The mount is over: the list in memory and the list shown are the list the
\* mount found stored, and the slot holds its serialization again.
Restored ==
    /\ Idle
    /\ boot.on
    /\ tasks = StoredList
    /\ rendered = StoredList
    /\ storage = Stored(JSONstringify(StoredList))

\* A mount over a slot that holds the serialization of a list is under way or
\* just over: no handler has run since.
Restoring == boot.on /\ WellFormed(boot.stored)

\* The save effect or the render that is due once the load effect has run.
StartupStep == SaveEffect \/ Render

\* How many startup steps are left at most: the load effect, the save effect
\* of the first render, the render setTasks asked for, its save effect.
StepsLeft ==
    (IF loadDue THEN 4 ELSE 0) + (IF dirty THEN 2 ELSE 0) + (IF saveDue THEN 1 ELSE 0)

\* C12: a mount over a slot that holds the serialization of a list reaches a
\* state with nothing left to run in which the list in memory is that list and
\* the slot holds its serialization again: nothing throws on the way, after
\* the load effect (which runs first) a step can run as long as something is
\* left to run, each step leaves fewer steps to run, and when none is left the
\* list is restored.
RestartRestores ==
    /\ [](Restoring =>
            /\ ~crashed
            /\ (~loadDue /\ ~Idle) => ENABLED StartupStep
            /\ Idle => Restored)
    /\ [][(Restoring /\ ~Idle) =>
            /\ boot' = boot
            /\ StepsLeft' <= StepsLeft
            /\ now' = now => StepsLeft' < StepsLeft]_vars

\* A list of two tasks, which only a former run of the component can have
\* stored, is restored.
RestartRestoresWitness ==
    /\ Restored
    /\ Len(tasks) = 2
    /\ tasks[1].completed
    /\ storage = boot.stored

\* C19: while a mount over a slot that holds the serialization of a list that
\* is not empty is under way, and when it is over, the slot still holds that
\* serialization.
StartupKeepsStored ==
    (Restoring /\ StoredList # <<>>) => storage = boot.stored

\* ------------------------------------------------------------- filter

\* C13: setFilter changes the filter and nothing else: the list in memory, the
\* list shown, its three counts and the slot are the same before and after,
\* and no write follows: it asks for no save effect, and neither does the
\* render it asks for.
FilterChangesOnlyFilter ==
    [][/\ (\E value \in FilterTypes : SetFilter(value)) =>
              /\ tasks' = tasks
              /\ rendered' = rendered
              /\ totalCount' = totalCount
              /\ activeCount' = activeCount
              /\ completedCount' = completedCount
              /\ storage' = storage
              /\ ~tasksSet' /\ ~saveDue'
       /\ (Render /\ ~tasksSet) =>
              /\ tasks' = tasks
              /\ rendered' = rendered
              /\ storage' = storage
              /\ ~saveDue']_vars

\* The filter went to 'completed' over a list of two tasks, one of them
\* completed, and the render is due.
FilterChangesOnlyFilterWitness ==
    /\ dirty /\ ~tasksSet
    /\ filter = "completed"
    /\ Form = BlankForm
    /\ Len(tasks) = 2
    /\ tasks[1].completed /\ ~tasks[2].completed
    /\ storage = Stored(JSONstringify(tasks))

\* ------------------------------------------------------------- titles

\* The title has a character that is no space, and no space at its ends.
TitleValid(task) == ~IsBlank(task.title) /\ task.title = Trim(task.title)

TitlesValid(ts) == \A i \in 1..Len(ts) : TitleValid(ts[i])

WriteFailureNotFatal == writeFailed => ~crashed

\* -------------------------------------------------------------- order

\* a is b with some of its elements left out, the others in their order.
RECURSIVE IsSubSeqOf(_, _)
IsSubSeqOf(a, b) ==
    IF a = <<>> THEN TRUE
    ELSE IF b = <<>> THEN FALSE
    ELSE IF Head(a) = Head(b) THEN IsSubSeqOf(Tail(a), Tail(b))
    ELSE IsSubSeqOf(a, Tail(b))

DigitValue(c) == CHOOSE d \in 0..9 : Digit(d) = c

\* The milliseconds a createdAt string of ToISOString stands for.
CreatedMs(task) ==
    100 * DigitValue(task.createdAt[2]) + 10 * DigitValue(task.createdAt[3])
        + DigitValue(task.createdAt[4])

\* No task stands before a task created after it.
NewestFirst(ts) ==
    \A i \in 1..Len(ts) : \A j \in i..Len(ts) : CreatedMs(ts[j]) <= CreatedMs(ts[i])

\* The two tasks differ in the completed flag at most.
SameButCompleted(t, u) == [t EXCEPT !.completed = u.completed] = u

OverdueIsStrictlyBefore ==
    /\ [](probe.done =>
            IF probe.dueDate = <<>> \/ probe.completed
            THEN probe.result = FALSE
            ELSE probe.result =
                    (DateParse(probe.dueDate).valid /\ DateParse(probe.dueDate).ms < now))
    /\ [][EvalOverdue =>
            UNCHANGED <<tasks, tasksIsArray, rendered, filter, formVars, storage, now, boot>>]_vars

\* A task due on the second day, not completed, asked about at the very
\* midnight that starts this day: not overdue.
OverdueIsStrictlyBeforeWitness ==
    /\ probe.done
    /\ probe.dueDate = <<"0", "2">> /\ ~probe.completed
    /\ now = MsPerDay
    /\ ~probe.result

\* ------------------------------------------------------- lost updates

\* C18: a toggle or a delete that is dispatched while the command before it
\* awaits its render gives the list that the command makes of the result of
\* the command before it.
NoLostUpdate ==
    [][\A id \in Ids :
          /\ toggleTaskBatched(id) => tasks' = ToggledList(tasks, id)
          /\ deleteTaskBatched(id) => tasks' = RemainingList(tasks, id)]_vars

====
